---- MODULE Spec2Model ----
(***************************************************************************)
(* Model of examples/gpu.rs: a window handler (HelloState) that shares an  *)
(* Arc<Mutex<Option<GpuState>>> with main, which builds the window, runs   *)
(* GpuState::new to completion and stores the result in the slot.          *)
(*                                                                         *)
(* A Rust panic (unwrap of None / Err, a failed assert!) ends the process: *)
(* it is recorded in `panic` and no action is enabled afterwards.          *)
(* Option<T> is a sequence of length 0 (None) or 1 (Some).                 *)
(* The display scale is kept in halves (2 = 1.0, 3 = 1.5, 4 = 2.0) so that *)
(* the f64 -> u32 cast of size_px has a fraction to drop.                  *)
(***************************************************************************)
EXTENDS Integers, Sequences, FiniteSets, TLC

\* Largest logical width the window takes (its height is 0 or 1).
MaxDim == 2

VARIABLES
    pc,        \* main's position (lines 208-223 and GpuState::new)
    panic,     \* [cause, at]: the panic that ended the process, if any
    handle,    \* HelloState.handle is the connected window (line 36)
    winSize,   \* the window's logical size, handle.get_size()
    scale,     \* the window's scale in halves, handle.get_scale()
    st,        \* the locals of GpuState::new
    slot,      \* the contents of gpu_state: Option<GpuState>
    surface,   \* the configuration last applied by surface.configure
    lock,      \* the holder of the mutex: "free", "main" or "ui"
    ui,        \* the callback the UI context is inside, or "idle"
    invalid,   \* an invalidate request is pending on the window
    closeReq,  \* handle.close() was called
    quit,      \* Application::global().quit() was called
    lastCb,    \* what the last completed callback did
    cfgRun     \* surface.configure calls made by resize() since the window's size last changed

vars == <<pc, panic, handle, winSize, scale, st, slot, surface, lock, ui,
          invalid, closeReq, quit, lastCb, cfgRun>>

Widths == 0..MaxDim
Heights == 0..1
Scales == {2, 3, 4}
\* What surface.get_supported_formats may report (the first is taken, line 268).
FormatLists == { <<"Bgra8UnormSrgb", "Rgba8Unorm">>, <<"Rgba8Unorm">>, <<>> }

None == <<>>
Some(x) == <<x>>
IsSome(o) == Len(o) = 1

NoPanic == [cause |-> "none", at |-> "none"]
Alive == panic = NoPanic

\* Scale::dp_to_px_xy (called at line 304): the logical length times the
\* scale, here in half pixels since the scale is in halves.
DpToPxXy(d, s) == d * s

\* DpToPx as it would be if the product were rounded to the nearest pixel.
DpToPxRounded(d, s) == (DpToPxXy(d, s) + 1) \div 2

\* Scale::dp_to_px_xy followed by `as u32` (lines 304-305): the product,
\* with its fraction dropped.
DpToPx(d, s) == DpToPxXy(d, s) \div 2

\* size_px, lines 300-308: the pair of pixel sizes; the assert! of line 306
\* is SizePxOk.
SizePx(win, s) == <<DpToPx(win[1], s), DpToPx(win[2], s)>>
SizePxOk(win, s) == SizePx(win, s)[1] > 0 /\ SizePx(win, s)[2] > 0

\* A callback's record: its name, whether the slot held a state, how it
\* ended ("ok" or "panic"), whether it called surface.configure, the GPU
\* calls it made, and the frame it presented: the width and height the
\* surface was configured with (cfg), the window's pixel size (px) and the
\* render pass recorded (pass).
NoCb == [name |-> "none", populated |-> FALSE, result |-> "ok",
         configured |-> FALSE, gpu |-> <<>>, frame |-> None]

\* The locals of GpuState::new before its first statement.
NoConfig == [width |-> 0, height |-> 0, format |-> "none", present_mode |-> "none"]
NewLocals == [px |-> <<0, 0>>, surface |-> FALSE, adapter |-> None,
              device |-> FALSE, queue |-> FALSE, config |-> NoConfig,
              configured |-> FALSE]

\* struct GpuState, lines 226-233, as GpuState::new returns it (lines 276-283).
GpuStateOf(s) == [surface |-> s.surface, device |-> s.device, queue |-> s.queue,
                  config |-> s.config, configured |-> s.configured, size |-> s.px]

\* A state on which every statement of GpuState::new has run.
FullyInit(g) == g.surface /\ g.device /\ g.queue /\ g.configured

\* A panic: the process ends here.
Die(cause, at) == panic' = [cause |-> cause, at |-> at]

\* HelloState::default() (line 210) and a window not yet built; the window
\* starts with a size that has pixels (a size of 0 arrives by a size callback).
Init ==
    /\ pc = "start"
    /\ panic = NoPanic
    /\ handle = FALSE
    /\ winSize \in (Widths \ {0}) \X (Heights \ {0})
    /\ scale \in Scales
    /\ st = NewLocals
    /\ slot = None
    /\ surface = None
    /\ lock = "free"
    /\ ui = "idle"
    /\ invalid = FALSE
    /\ closeReq = FALSE
    /\ quit = FALSE
    /\ lastCb = NoCb
    /\ cfgRun = 0

\* main, lines 208-216: the handler is installed and the window built.
Build ==
    /\ Alive /\ pc = "start"
    /\ pc' = "built"
    /\ UNCHANGED <<panic, handle, winSize, scale, st, slot, surface, lock, ui,
                   invalid, closeReq, quit, lastCb, cfgRun>>

\* GpuState::new, line 237: size_px(&handle), whose assert! may fail.
NewSizePx ==
    /\ Alive /\ pc = "built"
    /\ IF SizePxOk(winSize, scale)
       THEN /\ st' = [st EXCEPT !.px = SizePx(winSize, scale)]
            /\ pc' = "sized"
            /\ UNCHANGED panic
       ELSE /\ Die("size_px", "new")
            /\ UNCHANGED <<st, pc>>
    /\ UNCHANGED <<handle, winSize, scale, slot, surface, lock, ui,
                   invalid, closeReq, quit, lastCb, cfgRun>>

\* GpuState::new, lines 239-248: the surface is created and an adapter
\* requested; request_adapter gives None when no adapter is compatible.
NewRequestAdapter ==
    /\ Alive /\ pc = "sized"
    /\ \E a \in {None} \cup {Some(f) : f \in FormatLists} :
          IF IsSome(a)
          THEN /\ st' = [st EXCEPT !.surface = TRUE, !.adapter = a]
               /\ pc' = "adapter"
               /\ UNCHANGED panic
          ELSE /\ Die("adapter", "new")
               /\ UNCHANGED <<st, pc>>
    /\ UNCHANGED <<handle, winSize, scale, slot, surface, lock, ui,
                   invalid, closeReq, quit, lastCb, cfgRun>>

\* GpuState::new, lines 250-264: request_device, unwrapped.
NewRequestDevice ==
    /\ Alive /\ pc = "adapter"
    /\ \E ok \in BOOLEAN :
          IF ok
          THEN /\ st' = [st EXCEPT !.device = TRUE, !.queue = TRUE]
               /\ pc' = "device"
               /\ UNCHANGED panic
          ELSE /\ Die("device", "new")
               /\ UNCHANGED <<st, pc>>
    /\ UNCHANGED <<handle, winSize, scale, slot, surface, lock, ui,
                   invalid, closeReq, quit, lastCb, cfgRun>>

\* GpuState::new, lines 266-274: the configuration is built from the first
\* supported format and FIFO, and applied to the surface.
NewConfigure ==
    /\ Alive /\ pc = "device"
    /\ LET formats == st.adapter[1] IN
       IF Len(formats) > 0
       THEN LET config == [width |-> st.px[1], height |-> st.px[2],
                           format |-> formats[1], present_mode |-> "Fifo"] IN
            /\ st' = [st EXCEPT !.config = config, !.configured = TRUE]
            /\ surface' = Some(config)
            /\ pc' = "constructed"
            /\ UNCHANGED panic
       ELSE /\ Die("formats", "new")
            /\ UNCHANGED <<st, surface, pc>>
    /\ UNCHANGED <<handle, winSize, scale, slot, lock, ui,
                   invalid, closeReq, quit, lastCb, cfgRun>>

\* PopulateLock as it would be if main stored the state before
\* GpuState::new had finished.
PopulateLockEarly ==
    /\ Alive /\ pc \in {"adapter", "device", "constructed"} /\ lock = "free"
    /\ lock' = "main"
    /\ pc' = "locking"
    /\ UNCHANGED <<panic, handle, winSize, scale, st, slot, surface, ui,
                   invalid, closeReq, quit, lastCb, cfgRun>>

\* main, line 219: gpu_state.lock().unwrap(), taken once GpuState::new has
\* returned (line 218).
PopulateLock ==
    /\ Alive /\ pc = "constructed" /\ lock = "free"
    /\ lock' = "main"
    /\ pc' = "locking"
    /\ UNCHANGED <<panic, handle, winSize, scale, st, slot, surface, ui,
                   invalid, closeReq, quit, lastCb, cfgRun>>

\* main, line 219: the slot is assigned Some(state) and the guard dropped.
PopulateStore ==
    /\ Alive /\ pc = "locking"
    /\ slot' = Some(GpuStateOf(st))
    /\ lock' = "free"
    /\ pc' = "populated"
    /\ UNCHANGED <<panic, handle, winSize, scale, st, surface, ui,
                   invalid, closeReq, quit, lastCb, cfgRun>>

\* Show as it would be if main went on to show the window whether or not
\* GpuState::new had succeeded.
ShowAnyway ==
    /\ pc \in {"built", "sized", "adapter", "device", "populated"}
    /\ pc = "populated" \/ ~Alive
    /\ pc' = "shown"
    /\ UNCHANGED <<panic, handle, winSize, scale, st, slot, surface, lock, ui,
                   invalid, closeReq, quit, lastCb, cfgRun>>

\* main, line 221: window.show().
Show ==
    /\ Alive /\ pc = "populated"
    /\ pc' = "shown"
    /\ UNCHANGED <<panic, handle, winSize, scale, st, slot, surface, lock, ui,
                   invalid, closeReq, quit, lastCb, cfgRun>>

\* main, line 223: app.run(None) starts the event loop.
Run ==
    /\ Alive /\ pc = "shown"
    /\ pc' = "running"
    /\ UNCHANGED <<panic, handle, winSize, scale, st, slot, surface, lock, ui,
                   invalid, closeReq, quit, lastCb, cfgRun>>

\* main, line 223: app.run returns once quit was asked for.
Exit ==
    /\ Alive /\ pc = "running" /\ quit /\ ui = "idle"
    /\ pc' = "exited"
    /\ UNCHANGED <<panic, handle, winSize, scale, st, slot, surface, lock, ui,
                   invalid, closeReq, quit, lastCb, cfgRun>>

Main ==
    \/ Build \/ NewSizePx \/ NewRequestAdapter \/ NewRequestDevice
    \/ NewConfigure \/ PopulateLock \/ PopulateStore \/ Show \/ Run \/ Exit

\* The window system delivers callbacks one at a time (ui = "idle") to the
\* connected handler of a window that exists and was not destroyed.
Delivering ==
    Alive /\ pc \notin {"start", "exited"} /\ handle /\ ~quit /\ ui = "idle"

\* WinHandler::connect, lines 35-37.
Connect ==
    /\ Alive /\ pc \notin {"start", "exited"} /\ ~handle /\ ui = "idle"
    /\ handle' = TRUE
    /\ lastCb' = [NoCb EXCEPT !.name = "connect", !.populated = IsSome(slot)]
    /\ UNCHANGED <<pc, panic, winSize, scale, st, slot, surface, lock, ui,
                   invalid, closeReq, quit, cfgRun>>

\* GpuState::resize, lines 287-291: whether the call goes on to configure.
ResizeConfigures(g, px) == g.size # px

\* ResizeState as it would be if resize() rebuilt the configuration and
\* left the presentation mode at the default.
ResizeStateRebuilt(g, px) ==
    IF g.size # px
    THEN [g EXCEPT !.config = [width |-> px[1], height |-> px[2],
                               format |-> g.config.format,
                               present_mode |-> "Immediate"]]
    ELSE g

\* ResizeState as it would be if resize() wrote config.width and
\* config.height before its early return.
ResizeStateEager(g, px) ==
    [g EXCEPT !.config.width = px[1], !.config.height = px[2]]

\* GpuState::resize, lines 292-294: the state the call leaves.
ResizeState(g, px) ==
    IF ResizeConfigures(g, px)
    THEN [g EXCEPT !.config.width = px[1], !.config.height = px[2]]
    ELSE g

\* as_mut as it would be if the callback took the state out of the slot
\* (Option::take) to work on it.
Take(g) == None

\* Option::as_mut().unwrap(), lines 42 and 144: the state is changed in
\* place and the slot still holds it.
AsMut(g) == Some(g)

\* SizeBegin as it would be if the callback went on without waiting for
\* the mutex.
SizeBeginNoWait(w, h) ==
    /\ Delivering
    /\ winSize' = <<w, h>>
    /\ cfgRun' = IF <<w, h>> # winSize THEN 0 ELSE cfgRun
    /\ lock' = "ui"
    /\ ui' = "size"
    /\ UNCHANGED <<pc, panic, handle, scale, st, slot, surface,
                   invalid, closeReq, quit, lastCb>>

\* WinHandler::size, lines 39-41: the window has the size (w, h); the
\* callback logs it and takes the lock.
SizeBegin(w, h) ==
    /\ Delivering /\ lock = "free"
    /\ winSize' = <<w, h>>
    /\ cfgRun' = IF <<w, h>> # winSize THEN 0 ELSE cfgRun
    /\ lock' = "ui"
    /\ ui' = "size"
    /\ UNCHANGED <<pc, panic, handle, scale, st, slot, surface,
                   invalid, closeReq, quit, lastCb>>

\* WinHandler::size, line 42, with GpuState::resize (lines 286-297) inside:
\* the slot is unwrapped, resize() run and its result unwrapped; the guard
\* is dropped on return.
SizeBody ==
    /\ Alive /\ ui = "size"
    /\ IF ~IsSome(slot)
       THEN /\ Die("slot_none", "size")
            /\ lastCb' = [NoCb EXCEPT !.name = "size", !.result = "panic"]
            /\ UNCHANGED <<slot, surface, lock, ui, cfgRun>>
       ELSE IF ~SizePxOk(winSize, scale)
       THEN /\ Die("size_px", "size")
            /\ lastCb' = [NoCb EXCEPT !.name = "size", !.populated = TRUE,
                                      !.result = "panic"]
            /\ UNCHANGED <<slot, surface, lock, ui, cfgRun>>
       ELSE LET g  == slot[1]
                px == SizePx(winSize, scale)
                did == ResizeConfigures(g, px)
            IN  /\ slot' = AsMut(ResizeState(g, px))
                /\ surface' = IF did THEN Some(ResizeState(g, px).config) ELSE surface
                /\ cfgRun' = IF did THEN (IF cfgRun < 2 THEN cfgRun + 1 ELSE 2) ELSE cfgRun
                /\ lastCb' = [NoCb EXCEPT !.name = "size", !.populated = TRUE,
                                          !.configured = did,
                                          !.gpu = IF did THEN <<"configure">> ELSE <<>>]
                /\ lock' = "free"
                /\ ui' = "idle"
                /\ UNCHANGED panic
    /\ UNCHANGED <<pc, handle, winSize, scale, st, invalid, closeReq, quit>>

\* prepare_paint as it would be if it invalidated only a ready window.
PreparePaintIfReady ==
    /\ Delivering
    /\ invalid' = (invalid \/ IsSome(slot))
    /\ lastCb' = [NoCb EXCEPT !.name = "prepare_paint", !.populated = IsSome(slot)]
    /\ UNCHANGED <<pc, panic, handle, winSize, scale, st, slot, surface, lock, ui,
                   closeReq, quit, cfgRun>>

\* WinHandler::prepare_paint, lines 45-47.
PreparePaint ==
    /\ Delivering
    /\ invalid' = TRUE
    /\ lastCb' = [NoCb EXCEPT !.name = "prepare_paint", !.populated = IsSome(slot)]
    /\ UNCHANGED <<pc, panic, handle, winSize, scale, st, slot, surface, lock, ui,
                   closeReq, quit, cfgRun>>

\* RenderOps as it would be if the texture were presented before the
\* commands are submitted.
RenderOpsPresentFirst ==
    <<"get_current_texture", "create_view", "create_command_encoder",
      "begin_render_pass", "present", "submit">>

\* The render pass of lines 156-172: one colour attachment, the view made
\* of the acquired texture (lines 146-148), cleared on load and stored.
RenderPass == [view |-> "output.texture", load |-> "Clear", store |-> TRUE]

\* The GPU calls of a render that presents, in the order of lines 145-175.
RenderOps == <<"get_current_texture", "create_view", "create_command_encoder",
               "begin_render_pass", "submit", "present">>

\* HelloState::render, lines 142-143, entered from paint (lines 49-51, which
\* takes up the pending invalidate) or mouse_down (lines 105-108): size_px,
\* whose assert! may fail, then the lock.
RenderBegin(name) ==
    /\ Delivering
    /\ name = "paint" => invalid
    /\ invalid' = IF name = "paint" THEN FALSE ELSE invalid
    /\ IF SizePxOk(winSize, scale)
       THEN /\ lock = "free"
            /\ lock' = "ui"
            /\ ui' = name
            /\ UNCHANGED <<panic, lastCb>>
       ELSE /\ Die("size_px", name)
            /\ lastCb' = [NoCb EXCEPT !.name = name, !.populated = IsSome(slot),
                                      !.result = "panic"]
            /\ UNCHANGED <<lock, ui>>
    /\ UNCHANGED <<pc, handle, winSize, scale, st, slot, surface,
                   closeReq, quit, cfgRun>>

\* HelloState::render, lines 144-176: the slot is unwrapped, the surface
\* texture acquired and unwrapped, one pass recorded, submitted and
\* presented; the guard is dropped at the end of the block.
RenderBody ==
    /\ Alive /\ ui \in {"paint", "mouse_down"}
    /\ IF ~IsSome(slot)
       THEN /\ Die("slot_none", ui)
            /\ lastCb' = [NoCb EXCEPT !.name = ui, !.result = "panic"]
            /\ UNCHANGED <<lock, ui>>
       ELSE \E acquired \in BOOLEAN :
            IF acquired
            THEN /\ lastCb' = [NoCb EXCEPT
                        !.name = ui, !.populated = TRUE, !.gpu = RenderOps,
                        !.frame = Some([cfg |-> <<surface[1].width, surface[1].height>>,
                                        px  |-> SizePx(winSize, scale),
                                        pass |-> RenderPass])]
                 /\ lock' = "free"
                 /\ ui' = "idle"
                 /\ UNCHANGED panic
            ELSE /\ Die("acquire", ui)
                 /\ lastCb' = [NoCb EXCEPT !.name = ui, !.populated = TRUE,
                                           !.result = "panic",
                                           !.gpu = <<"get_current_texture">>]
                 /\ UNCHANGED <<lock, ui>>
    /\ UNCHANGED <<pc, handle, winSize, scale, st, slot, surface,
                   invalid, closeReq, quit, cfgRun>>

\* key_down, key_up, wheel, mouse_move, mouse_up, timer, got_focus and
\* lost_focus, lines 87-103 and 110-124: they log (mouse_move also sets the
\* cursor).
InputNames == {"key_down", "key_up", "wheel", "mouse_move", "mouse_up",
               "timer", "got_focus", "lost_focus"}

\* Input as it would be if key_down rendered the way mouse_down does.
InputRenders(name) ==
    /\ Delivering
    /\ lastCb' = [NoCb EXCEPT !.name = name, !.populated = IsSome(slot),
                              !.gpu = IF name = "key_down" /\ IsSome(slot)
                                      THEN RenderOps ELSE <<>>]
    /\ UNCHANGED <<pc, panic, handle, winSize, scale, st, slot, surface, lock, ui,
                   invalid, closeReq, quit, cfgRun>>

Input(name) ==
    /\ Delivering
    /\ lastCb' = [NoCb EXCEPT !.name = name, !.populated = IsSome(slot)]
    /\ UNCHANGED <<pc, panic, handle, winSize, scale, st, slot, surface, lock, ui,
                   invalid, closeReq, quit, cfgRun>>

\* RequestClose as it would be if it also quit the application, the way
\* the exit command of lines 55-58 does.
RequestCloseAndQuit ==
    /\ Delivering
    /\ closeReq' = TRUE
    /\ quit' = TRUE
    /\ lastCb' = [NoCb EXCEPT !.name = "request_close", !.populated = IsSome(slot)]
    /\ UNCHANGED <<pc, panic, handle, winSize, scale, st, slot, surface, lock, ui,
                   invalid, cfgRun>>

\* WinHandler::request_close, lines 126-128.
RequestClose ==
    /\ Delivering
    /\ closeReq' = TRUE
    /\ lastCb' = [NoCb EXCEPT !.name = "request_close", !.populated = IsSome(slot)]
    /\ UNCHANGED <<pc, panic, handle, winSize, scale, st, slot, surface, lock, ui,
                   invalid, quit, cfgRun>>

\* WinHandler::destroy, lines 130-132, delivered once the window was closed.
Destroy ==
    /\ Delivering /\ closeReq
    /\ quit' = TRUE
    /\ lastCb' = [NoCb EXCEPT !.name = "destroy", !.populated = IsSome(slot)]
    /\ UNCHANGED <<pc, panic, handle, winSize, scale, st, slot, surface, lock, ui,
                   invalid, closeReq, cfgRun>>

Callbacks ==
    \/ Connect
    \/ \E w \in Widths, h \in Heights : SizeBegin(w, h)
    \/ SizeBody
    \/ PreparePaint
    \/ \E name \in {"paint", "mouse_down"} : RenderBegin(name)
    \/ RenderBody
    \/ \E name \in InputNames : Input(name)
    \/ RequestClose
    \/ Destroy

Next == Main \/ Callbacks

Spec == Init /\ [][Next]_vars

\* Spec with the scheduling the liveness claims rest on: a callback or main
\* statement that has started runs on (weak fairness), and the window system
\* delivers a paint callback for a pending invalidate request (strong
\* fairness, since other callbacks may be delivered first).
LiveSpec ==
    /\ Spec
    /\ SF_vars(RenderBegin("paint"))
    /\ WF_vars(RenderBody) /\ WF_vars(SizeBody) /\ WF_vars(PopulateStore)

(***************************************************************************)
(* The claims.                                                             *)
(***************************************************************************)

\* C1: every frame a callback presents was rendered with the surface
\* configured at the window's current physical size (no stale configuration).
C1_FrameAtCurrentSize ==
    IsSome(lastCb.frame) => lastCb.frame[1].cfg = lastCb.frame[1].px

\* C2: after a size callback whose resize() returned Ok, GpuState.size equals
\* (config.width, config.height) and both equal the window's physical size.
C2_SizeEqualsConfig ==
    (lastCb.name = "size" /\ lastCb.result = "ok" /\ ui = "idle")
        => /\ slot[1].size = <<slot[1].config.width, slot[1].config.height>>
           /\ slot[1].size = SizePx(winSize, scale)

\* C3: the resize() calls made since the window's size last changed call
\* surface.configure at most once in total (a repeated call is a no-op).
C3_ConfigureAtMostOnce == cfgRun <= 1

\* C4: a size, paint or mouse_down callback that finds the slot empty ends
\* normally and makes no GPU call.
C4_EmptySlotIsNoOp ==
    (lastCb.name \in {"size", "paint", "mouse_down"} /\ ~lastCb.populated)
        => (lastCb.result = "ok" /\ lastCb.gpu = <<>> /\ Alive)

\* C5: no window callback ends in a fatal error: the process is never ended
\* by a panic raised inside a callback.
C5_NoCallbackPanics == panic.at \in {"none", "new"}

\* C6: a non-positive physical size makes GpuState::new and resize() give an
\* error value; it never aborts them.
C6_GeometryIsAnError ==
    ~(panic.cause = "size_px" /\ panic.at \in {"new", "size"})

\* C7: a resize() that fails on a populated slot leaves the handler able to
\* take a later size callback.
C7_FailedResizeRecoverable ==
    (lastCb.name = "size" /\ lastCb.populated /\ lastCb.result # "ok")
        => ENABLED SizeBegin(1, 1)

\* C8: once prepare_paint has returned, an invalidate request is pending on
\* the window, whether or not the slot was populated, and a paint callback
\* follows (unless the process has ended or the window was destroyed).
C8_PrepareAlwaysInvalidates ==
    /\ []((lastCb.name = "prepare_paint" /\ ui = "idle") => invalid)
    /\ (lastCb.name = "prepare_paint")
          ~> (lastCb.name = "paint" \/ ~Alive \/ quit)

\* C8 witness: prepare_paint ran on an empty slot and the request is pending.
C8_Witness ==
    lastCb.name = "prepare_paint" /\ ~lastCb.populated /\ ui = "idle" /\ invalid

\* C9: a render whose surface texture could not be acquired skips the frame
\* and leaves the handler able to render on the next callback.
C9_AcquireFailureNotSticky ==
    (lastCb.name \in {"paint", "mouse_down"} /\ lastCb.gpu = <<"get_current_texture">>)
        => ENABLED RenderBegin("mouse_down")

\* C10: the slot never holds a state on which GpuState::new has not finished;
\* main stores it while holding the lock, and every callback that made a GPU
\* call found the slot populated.
C10_NoPartialState ==
    /\ IsSome(slot) => FullyInit(slot[1])
    /\ pc = "locking" => (lock = "main" /\ FullyInit(GpuStateOf(st)))
    /\ lock = "ui" => (~IsSome(slot) \/ FullyInit(slot[1]))
    /\ lastCb.gpu # <<>> => lastCb.populated

\* C10 witness: a callback rendered a frame on the populated slot.
C10_Witness ==
    IsSome(slot) /\ lastCb.name = "paint" /\ IsSome(lastCb.frame)

\* C11: the slot starts empty; it goes from empty to populated only by main's
\* store (once: main never returns to it); once populated it is never empty
\* again and keeps the same surface, device and queue.
C11_PopulatedOnce ==
    /\ slot = None
    /\ [][/\ (~IsSome(slot) /\ IsSome(slot')) => (pc = "locking" /\ pc' = "populated")
          /\ pc = "populated" => pc' # "locking"
          /\ IsSome(slot) =>
                /\ IsSome(slot')
                /\ slot'[1].surface = slot[1].surface
                /\ slot'[1].device = slot[1].device
                /\ slot'[1].queue = slot[1].queue]_vars

\* C12: a callback is inside the slot (body of size or render) only while it
\* holds the lock, main stores only while it holds the lock, the two are
\* never inside together, main does not hold the lock while GpuState::new
\* runs, and the slot changes only in a step that starts with the lock held.
C12_SlotOnlyUnderLock ==
    /\ [](/\ ui # "idle" => lock = "ui"
          /\ lock = "ui" => ui # "idle"
          /\ pc = "locking" <=> lock = "main"
          /\ ~(pc = "locking" /\ ui # "idle")
          /\ pc \in {"start", "built", "sized", "adapter", "device", "constructed"}
                => lock # "main")
    /\ [][slot' # slot => lock # "free"]_vars

\* C12 witness: a callback holds the lock while main, done with
\* GpuState::new, waits to store.
C12_Witness == lock = "ui" /\ ui = "paint" /\ pc = "constructed" /\ Alive

\* C13: on a populated slot the pixel format and presentation mode stay the
\* first supported format and FIFO, as GpuState::new set them; only the body
\* of the size callback changes the stored state or the surface's applied
\* configuration, and it changes neither the format nor the mode.
C13_ConfigOnlyByResize ==
    /\ [](IsSome(slot) =>
            /\ slot[1].config.format = st.adapter[1][1]
            /\ slot[1].config.present_mode = "Fifo"
            /\ surface[1].format = st.adapter[1][1]
            /\ surface[1].present_mode = "Fifo")
    /\ [][IsSome(slot) =>
            /\ (ui # "size" => (slot' = slot /\ surface' = surface))
            /\ slot'[1].config.format = slot[1].config.format
            /\ slot'[1].config.present_mode = slot[1].config.present_mode]_vars

\* C13 witness: a size callback has reconfigured the surface and a render
\* has presented a frame on it.
C13_Witness ==
    /\ IsSome(lastCb.frame)
    /\ <<slot[1].config.width, slot[1].config.height>> # slot[1].size

\* How often op occurs in ops, and where it first occurs.
Count(ops, op) == Cardinality({i \in DOMAIN ops : ops[i] = op})
Pos(ops, op) == CHOOSE i \in DOMAIN ops : ops[i] = op

\* C14: a render that presents a frame has acquired the texture, begun one
\* render pass (over the acquired texture's view, clear on load, store),
\* submitted and presented, once each and in this order; in every callback a
\* submit or present comes after an acquire of the same call.
C14_RenderProtocol ==
    /\ IsSome(lastCb.frame) =>
         LET ops == lastCb.gpu IN
         /\ \A op \in {"get_current_texture", "begin_render_pass", "submit", "present"} :
               Count(ops, op) = 1
         /\ Pos(ops, "get_current_texture") < Pos(ops, "begin_render_pass")
         /\ Pos(ops, "begin_render_pass") < Pos(ops, "submit")
         /\ Pos(ops, "submit") < Pos(ops, "present")
         /\ lastCb.frame[1].pass.view = "output.texture"
         /\ lastCb.frame[1].pass.load = "Clear"
         /\ lastCb.frame[1].pass.store
    /\ \A i \in DOMAIN lastCb.gpu :
         lastCb.gpu[i] \in {"submit", "present"}
            => \E j \in 1..(i - 1) : lastCb.gpu[j] = "get_current_texture"

\* C14 witness: a mouse_down callback presented a frame.
C14_Witness == lastCb.name = "mouse_down" /\ IsSome(lastCb.frame)

\* C15: a key, wheel, mouse_move, mouse_up, timer or focus callback makes no
\* GPU call, ends normally and leaves the slot, the surface and the lock as
\* they were; a mouse_down callback acquires the surface texture exactly
\* once (one render attempt) on a populated slot and makes no GPU call on an
\* empty one.
C15_InputPassThrough ==
    /\ [](/\ lastCb.name \in InputNames =>
               (lastCb.gpu = <<>> /\ lastCb.frame = None /\ lastCb.result = "ok")
          /\ lastCb.name = "mouse_down" =>
               IF lastCb.populated
               THEN Count(lastCb.gpu, "get_current_texture") = 1
               ELSE lastCb.gpu = <<>>)
    /\ [][(lastCb' # lastCb /\ lastCb'.name \in InputNames)
            => UNCHANGED <<slot, surface, lock, ui, panic>>]_vars

\* C15 witness: an input callback ran on a populated slot in the event loop.
C15_Witness ==
    lastCb.name = "mouse_move" /\ lastCb.populated /\ pc = "running"

\* C16: request_close asks the window to close and does not quit the
\* application; destroy quits it; neither makes a GPU call nor changes the
\* slot, the surface or the lock.
C16_CloseThenQuit ==
    /\ [](/\ lastCb.name = "request_close" =>
               (closeReq /\ ~quit /\ lastCb.gpu = <<>>)
          /\ lastCb.name = "destroy" => (quit /\ lastCb.gpu = <<>>))
    /\ [][(lastCb' # lastCb /\ lastCb'.name \in {"request_close", "destroy"})
            => /\ UNCHANGED <<slot, surface, lock, ui, panic>>
               /\ lastCb'.name = "request_close" => quit' = quit]_vars

\* C16 witness: destroy has run and the slot still holds the state.
C16_Witness == lastCb.name = "destroy" /\ quit /\ IsSome(slot) /\ IsSome(surface)

\* C17: once GpuState::new has failed, main is still inside it and never
\* goes on: the slot is empty, the window is not shown, the event loop is
\* not started, no callback has made a GPU call, and nothing happens after.
C17_InitFailureEndsStartup ==
    /\ [](panic.at = "new" =>
            /\ panic.cause \in {"size_px", "adapter", "device", "formats"}
            /\ pc \in {"built", "sized", "adapter", "device"}
            /\ slot = None
            /\ lock # "main"
            /\ lastCb.gpu = <<>>)
    /\ [][panic.at = "new" => FALSE]_vars

\* C17 witness: device creation failed with the handler already connected.
C17_Witness == panic = [cause |-> "device", at |-> "new"] /\ handle

\* The greatest whole number of pixels not above h half pixels, and the
\* whole number of pixels nearest to h half pixels (a half rounds up).
FloorOfHalves(h) == CHOOSE k \in 0..h : 2 * k <= h /\ h < 2 * (k + 1)
RoundOfHalves(h) == CHOOSE k \in 0..(h + 1) : 2 * k - 1 <= h /\ h < 2 * k + 1
TruncatedPx(win, s) == <<FloorOfHalves(win[1] * s), FloorOfHalves(win[2] * s)>>
RoundedPx(win, s) == <<RoundOfHalves(win[1] * s), RoundOfHalves(win[2] * s)>>

\* The size GpuState::new computed, while the window still has the size it
\* was computed from, and the size a size callback has just configured.
InitSizeIs(px) ==
    (pc \in {"sized", "adapter", "device", "constructed", "locking"} /\ ui = "idle")
        => /\ st.px = px
           /\ pc \in {"constructed", "locking"} =>
                <<surface[1].width, surface[1].height>> = px
ResizeSizeIs(px) ==
    (lastCb.name = "size" /\ lastCb.configured /\ ui = "idle")
        => /\ <<slot[1].config.width, slot[1].config.height>> = px
           /\ <<surface[1].width, surface[1].height>> = px

\* C18 as claimed: the physical size used by GpuState::new and by resize()
\* is round(logical * scale), for width and for height.
C18_SizeIsRounded ==
    InitSizeIs(RoundedPx(winSize, scale)) /\ ResizeSizeIs(RoundedPx(winSize, scale))

\* C18 as amended: the physical size used by GpuState::new and by resize()
\* is logical * scale with its fraction dropped, for width and for height.
C18_SizeIsTruncated ==
    InitSizeIs(TruncatedPx(winSize, scale)) /\ ResizeSizeIs(TruncatedPx(winSize, scale))

\* C18 witness: a size callback configured a size whose product has a
\* fraction, so that rounding and truncation differ.
C18_Witness ==
    /\ lastCb.name = "size" /\ lastCb.configured /\ ui = "idle"
    /\ TruncatedPx(winSize, scale) # RoundedPx(winSize, scale)

\* C19: the configuration GpuState::new has built and applied, and the one
\* a populated slot stores, is the configuration last applied to the surface.
C19_StoredIsApplied ==
    /\ pc \in {"constructed", "locking"} => surface = Some(st.config)
    /\ IsSome(slot) => surface = Some(slot[1].config)

\* C19 witness: a resize has applied a configuration other than the one
\* GpuState::new applied, and a later size callback was a no-op.
C19_Witness ==
    /\ IsSome(slot) /\ slot[1].config # st.config
    /\ lastCb.name = "size" /\ ~lastCb.configured /\ lastCb.result = "ok"

\* C11 witness: size and render callbacks have run on the populated slot.
C11_Witness ==
    IsSome(slot) /\ lastCb.name = "size" /\ lastCb.configured /\ ui = "mouse_down"
====
